---- MODULE Spec2Model ----
(***************************************************************************)
(* Verification model of the patrol subnet validator core:                 *)
(*   - HotkeyOwnershipValidator / HotkeyOwnershipChallenge                 *)
(*       validator/src/patrol/validation/hotkey_ownership/                 *)
(*       hotkey_ownership_challenge.py                                     *)
(*   - DatabaseEventStoreRepository                                        *)
(*       src.bak/patrol/validation/persistence/event_store_repository.py   *)
(*                                                                         *)
(* Specifications sharing the module:                                      *)
(*   Spec       one or more audits (execute_challenge) run as interleaved  *)
(*              asyncio tasks; every await is a step                       *)
(*   SpecVerify one audit, over every bounded miner response               *)
(*   SpecGraph  _validate_graph applied to bounded subgraphs               *)
(*   SpecStore  add_events against a store with a primary key on edge_hash *)
(*   SpecAvg    _moving_average applied to bounded score histories         *)
(*   SpecVolume MinerScoring._moving_average (miner_scoring.py)            *)
(*   SpecNormalize  normalize_scores (miner_scoring.py)                    *)
(*   SpecHash   create_event_hash on pairs of event dicts                  *)
(***************************************************************************)
EXTENDS Integers, Sequences, FiniteSets, Bags, TLC

VARIABLES
    \* ---- audits (Spec) ----
    owner,          \* ground truth: block -> owning coldkey of the target hotkey
    dashboard,      \* TRUE iff a dashboard client is configured
    pc,             \* audit -> position of execute_challenge
    miner,          \* audit -> miner under audit
    response,       \* audit -> subgraph_output of the miner's response
    rtime,          \* audit -> response_time_seconds
    start_owner,    \* audit -> result of the first boundary query
    pending,        \* audit -> chain_validation coroutines still awaiting the chain
    error,          \* audit -> str(ex) of the caught exception
    score,          \* audit -> the MinerScore built for the audit
    history,        \* score_repository: the MinerScore rows, oldest first
    sent,           \* scores received by the dashboard
    \* ---- structural validation (SpecGraph) ----
    gInput, gResult,
    \* ---- event store (SpecStore) ----
    store,          \* rows of table event_store
    spc,            \* position of add_events
    events,         \* the _ChainEvent objects of the running call
    idx,            \* index of the per-item loop
    duplicate_count,
    ret,            \* value add_events returned
    store0,         \* rows at the time of the call
    generic,        \* some insert of the call failed with a non-integrity error
    \* ---- moving average (SpecAvg, SpecVolume) ----
    avgArgs, avgResult,
    \* ---- normalize_scores (SpecNormalize) ----
    scores,         \* the argument: a mapping uid -> score
    normalized,     \* the value returned
    \* ---- create_event_hash (SpecHash) ----
    hashArgs,       \* two event dicts
    hashResult      \* their edge hashes

auditVars == <<owner, dashboard, pc, miner, response, rtime, start_owner,
               pending, error, score, sent>>
graphVars == <<gInput, gResult>>
storeVars == <<store, spc, events, idx, duplicate_count, ret, store0, generic>>
avgVars   == <<avgArgs, avgResult>>
normVars  == <<scores, normalized>>
hashVars  == <<hashArgs, hashResult>>
vars == <<auditVars, history, graphVars, storeVars, avgVars, normVars, hashVars>>


(***************************************************************************)
(* Generic helpers                                                         *)
(***************************************************************************)
Range(s) == {s[i] : i \in DOMAIN s}

SeqsUpTo(S, n) == UNION {[1..k -> S] : k \in 0..n}

RECURSIVE SumSeq(_)
SumSeq(s) == IF s = <<>> THEN 0 ELSE Head(s) + SumSeq(Tail(s))

(***************************************************************************)
(* Exception messages.  A message is the f-string of the source, kept as   *)
(* its template and the values it interpolates.                            *)
(***************************************************************************)
Msg(kind, a, b, n) == [kind |-> kind, a |-> a, b |-> b, n |-> n]
NoMsg == Msg("None", "", "", 0)
Ok == Msg("ok", "", "", 0)

(***************************************************************************)
(* Subgraphs                                                               *)
(***************************************************************************)
LOWER_BLOCK_LIMIT == 3014341

Coldkeys == {"A", "B", "C"}

\* subgraph_output: absent, or a list of node ids and a list of edges
Subgraph(nodes, edges) == [present |-> TRUE, nodes |-> nodes, edges |-> edges]
NoSubgraph == [present |-> FALSE, nodes |-> <<>>, edges |-> <<>>]

Edge(s, d, b) == [coldkey_source |-> s, coldkey_destination |-> d,
                  effective_block_number |-> b]

\* nx.is_weakly_connected: every node reachable from one node, direction ignored
RECURSIVE Reach(_, _)
Reach(seen, E) ==
    LET next == seen \cup {e.coldkey_destination : e \in {x \in E : x.coldkey_source \in seen}}
                     \cup {e.coldkey_source : e \in {x \in E : x.coldkey_destination \in seen}}
    IN IF next = seen THEN seen ELSE Reach(next, E)

is_weakly_connected(N, E) ==
    LET n0 == CHOOSE n \in N : TRUE
    IN Reach({n0}, E) = N

\* the loop of lines 45-48: graph is the set of node ids added so far
RECURSIVE AddNodes(_, _, _)
AddNodes(nodes, i, graph) ==
    IF i > Len(nodes) THEN Ok
    ELSE IF nodes[i] \in graph THEN Msg("Duplicate node", nodes[i], "", 0)
    ELSE AddNodes(nodes, i + 1, graph \cup {nodes[i]})

\* the edge loop with the endpoints looked up before the self-loop test
RECURSIVE MutAddEdgesEndpointsFirst(_, _, _, _)
MutAddEdgesEndpointsFirst(edges, i, N, added) ==
    IF i > Len(edges) THEN Ok
    ELSE LET e == edges[i] IN
         IF e.coldkey_source \notin N
            THEN Msg("Edge source is not a node", e.coldkey_source, "", 0)
         ELSE IF e.coldkey_destination \notin N
            THEN Msg("Edge destination is not a node", e.coldkey_destination, "", 0)
         ELSE IF e.coldkey_source = e.coldkey_destination
            THEN Msg("Edge has same source and destination", "", "", 0)
         ELSE IF e \in added
            THEN Msg("Duplicate edge", e.coldkey_source, e.coldkey_destination,
                     e.effective_block_number)
         ELSE MutAddEdgesEndpointsFirst(edges, i + 1, N, added \cup {e})

\* the loop of lines 50-63: added is the set of edges in the MultiDiGraph so far,
\* keyed by effective_block_number
RECURSIVE AddEdges(_, _, _, _)
AddEdges(edges, i, N, added) ==
    IF i > Len(edges) THEN Ok
    ELSE LET e == edges[i] IN
         IF e.coldkey_source = e.coldkey_destination
            THEN Msg("Edge has same source and destination", "", "", 0)
         ELSE IF e.coldkey_source \notin N
            THEN Msg("Edge source is not a node", e.coldkey_source, "", 0)
         ELSE IF e.coldkey_destination \notin N
            THEN Msg("Edge destination is not a node", e.coldkey_destination, "", 0)
         ELSE IF e \in added
            THEN Msg("Duplicate edge", e.coldkey_source, e.coldkey_destination,
                     e.effective_block_number)
         ELSE AddEdges(edges, i + 1, N, added \cup {e})

\* _validate_graph: Ok, or the message of the ValidationException it raises
MutValidateGraphPairKey(subgraph) ==
    IF ~subgraph.present THEN Msg("Missing graph", "", "", 0)
    ELSE IF subgraph.nodes = <<>> THEN Msg("Zero nodes", "", "", 0)
    ELSE LET n == AddNodes(subgraph.nodes, 1, {})
             N == Range(subgraph.nodes)
             \* edges keyed by the endpoint pair only
             flat == [i \in DOMAIN subgraph.edges |->
                        Edge(subgraph.edges[i].coldkey_source,
                             subgraph.edges[i].coldkey_destination, 0)]
             e == AddEdges(flat, 1, N, {})
         IN IF n # Ok THEN n
            ELSE IF e # Ok THEN e
            ELSE IF ~is_weakly_connected(N, Range(subgraph.edges))
                 THEN Msg("Graph is not fully connected", "", "", 0)
            ELSE Ok

ValidateGraph(subgraph) ==
    IF ~subgraph.present THEN Msg("Missing graph", "", "", 0)
    ELSE IF subgraph.nodes = <<>> THEN Msg("Zero nodes", "", "", 0)
    ELSE LET n == AddNodes(subgraph.nodes, 1, {})
             N == Range(subgraph.nodes)
             e == AddEdges(subgraph.edges, 1, N, {})
         IN IF n # Ok THEN n
            ELSE IF e # Ok THEN e
            ELSE IF ~is_weakly_connected(N, Range(subgraph.edges))
                 THEN Msg("Graph is not fully connected", "", "", 0)
            ELSE Ok

(***************************************************************************)
(* SpecGraph: _validate_graph on bounded subgraphs                         *)
(***************************************************************************)
MaxNodes == 3
MaxEdges == 2

EdgeBlocks == {LOWER_BLOCK_LIMIT + 1, LOWER_BLOCK_LIMIT + 3}

EdgesOver(K) == {Edge(s, d, b) : s \in K, d \in K, b \in EdgeBlocks}

GraphIdle == gInput = NoSubgraph /\ gResult = NoMsg

\* the subgraph is absent, or any bounded list of nodes with any bounded list
\* of edges
GraphInit ==
    /\ \/ gInput = NoSubgraph
       \/ \E n \in SeqsUpTo(Coldkeys, MaxNodes) :
             \E e \in SeqsUpTo(EdgesOver(Coldkeys), MaxEdges) : gInput = Subgraph(n, e)
    /\ gResult = NoMsg

ValidateGraphCall ==
    /\ gResult = NoMsg
    /\ gResult' = ValidateGraph(gInput)
    /\ UNCHANGED <<gInput, owner, dashboard, pc, miner, response, rtime, start_owner,
                   pending, error, score, sent, history, store, spc, events, idx,
                   duplicate_count, ret, store0, generic, avgArgs, avgResult,
                   scores, normalized, hashArgs, hashResult>>

(***************************************************************************)
(* Score history (score_repository) and the pass/fail scoring policy       *)
(***************************************************************************)
HOTKEY_OWNERSHIP == "HOTKEY_OWNERSHIP"
COLDKEY_SEARCH == "COLDKEY_SEARCH"

Miners == {[hotkey |-> "hk1", uid |-> 1], [hotkey |-> "hk2", uid |-> 2]}

\* self.moving_average_denominator
moving_average_denominator == 12

RECURSIVE Gcd(_, _)
Gcd(x, y) == IF y = 0 THEN x ELSE Gcd(y, x % y)

\* a quotient of two naturals, kept exact as a reduced fraction
Frac(n, d) == LET g == Gcd(n, d) IN [num |-> n \div g, den |-> d \div g]

\* sum(s) / len(s)
Mean(s) == Frac(SumSeq(s), Len(s))

\* s[:n]
Slice(s, n) == SubSeq(s, 1, IF n < Len(s) THEN n ELSE Len(s))

RECURSIVE Reverse(_)
Reverse(s) == IF s = <<>> THEN <<>> ELSE Append(Reverse(Tail(s)), Head(s))

RECURSIVE Select(_, _, _)
Select(s, m, t) ==
    IF s = <<>> THEN <<>>
    ELSE IF Head(s).miner = m /\ Head(s).task_type = t
         THEN <<Head(s).overall_score>> \o Select(Tail(s), m, t)
         ELSE Select(Tail(s), m, t)

\* MinerScoreRepository.find_latest_overall_scores(miner, task_type, limit):
\* the overall scores of the miner's rows of that task type, most recent first,
\* at most `limit` of them
find_latest_overall_scores(rows, m, t, limit) ==
    Slice(Reverse(Select(rows, m, t)), limit)

\* HotkeyOwnershipChallenge._moving_average with the new score left out of the window
MutMovingAverageStale(rows, overall_score, m) ==
    LET previous_scores == find_latest_overall_scores(rows, m, HOTKEY_OWNERSHIP,
                                                      moving_average_denominator)
                           \o <<overall_score>>
        numerator_scores == Slice(previous_scores, moving_average_denominator)
    IN Mean(numerator_scores)

\* HotkeyOwnershipChallenge._moving_average
MovingAverage(rows, overall_score, m) ==
    LET previous_scores == find_latest_overall_scores(rows, m, HOTKEY_OWNERSHIP,
                                                      moving_average_denominator - 1)
                           \o <<overall_score>>
        denominator == moving_average_denominator
        numerator_scores == Slice(previous_scores, denominator)
    IN Mean(numerator_scores)

\* HotkeyOwnershipScoring.score(True, response_time): (overall, response_time),
\* in hundredths; overall is positive for a passed audit
ScoringScore(response_time) ==
    LET r == 200 \div (response_time + 2)
    IN [overall |-> (900 + r) \div 10, response_time |-> r]

MinerScore(id, m, overall, resp, avg, rt, passed, msg) ==
    [id |-> id, miner |-> m, overall_score |-> overall, responsiveness_score |-> resp,
     overall_score_moving_average |-> avg, response_time_seconds |-> rt,
     validation_passed |-> passed, error_message |-> msg, task_type |-> HOTKEY_OWNERSHIP]

NoScore == MinerScore(0, [hotkey |-> "", uid |-> 0], 0, 0, Frac(0, 1), 0, FALSE, NoMsg)

\* the zero score without its message
MutCalculateZeroScoreNoMessage(rows, task_id, m, response_time, error_message) ==
    MinerScore(task_id, m, 0, 0, MovingAverage(rows, 0, m), response_time, FALSE, NoMsg)

\* _calculate_zero_score
CalculateZeroScore(rows, task_id, m, response_time, error_message) ==
    MinerScore(task_id, m, 0, 0, MovingAverage(rows, 0, m), response_time, FALSE,
               error_message)

\* _calculate_score
CalculateScore(rows, task_id, m, response_time) ==
    LET s == ScoringScore(response_time)
    IN MinerScore(task_id, m, s.overall, s.response_time,
                  MovingAverage(rows, s.overall, m), response_time, TRUE, NoMsg)

(***************************************************************************)
(* Spec: audits.  execute_challenge runs as an asyncio task per audit; an  *)
(* action is the code between two awaits.                                  *)
(***************************************************************************)
MaxAudits == 2
Audits == 1..MaxAudits

\* node ids a miner may submit, and the coldkeys that may own the target hotkey
AuditKeys == {"A", "B"}
MaxAuditNodes == 2
MaxAuditEdges == 2

\* the max_block_number the audits are run with
max_block_number == LOWER_BLOCK_LIMIT + 4

\* the blocks get_hotkey_owner is asked about
QueriedBlocks ==
    {LOWER_BLOCK_LIMIT, max_block_number}
    \cup {b - 1 : b \in EdgeBlocks} \cup {b + 1 : b \in EdgeBlocks}

Responses ==
    {NoSubgraph} \cup
    {Subgraph(n, e) : n \in SeqsUpTo(AuditKeys, MaxAuditNodes),
                      e \in SeqsUpTo(EdgesOver(AuditKeys), MaxAuditEdges)}

\* the responses drawn when several audits interleave: no subgraph, a lone
\* node, and one transfer A -> B
OrchResponses ==
    {NoSubgraph,
     Subgraph(<<"A">>, <<>>),
     Subgraph(<<"A", "B">>, <<Edge("A", "B", LOWER_BLOCK_LIMIT + 1)>>)}

ResponseTimes == {2, 6}

\* the coroutines chain_validation(block_number, expected_owning_coldkey) of an
\* edge list, named by edge index and side
Queries(edges) == {<<i, side>> : i \in DOMAIN edges, side \in {"src", "dst"}}

QBlock(edges, q) ==
    IF q[2] = "src" THEN edges[q[1]].effective_block_number - 1
    ELSE edges[q[1]].effective_block_number + 1

QExpected(edges, q) ==
    IF q[2] = "src" THEN edges[q[1]].coldkey_source
    ELSE edges[q[1]].coldkey_destination

AuditIdle ==
    /\ owner = [b \in QueriedBlocks |-> "A"]
    /\ dashboard = FALSE
    /\ pc = [a \in Audits |-> "idle"]
    /\ miner = [a \in Audits |-> CHOOSE m \in Miners : TRUE]
    /\ response = [a \in Audits |-> NoSubgraph]
    /\ rtime = [a \in Audits |-> 0]
    /\ start_owner = [a \in Audits |-> ""]
    /\ pending = [a \in Audits |-> {}]
    /\ error = [a \in Audits |-> NoMsg]
    /\ score = [a \in Audits |-> NoScore]
    /\ sent = {}

AuditInit ==
    /\ owner \in [QueriedBlocks -> AuditKeys]
    /\ dashboard \in BOOLEAN
    /\ pc = [a \in Audits |-> "idle"]
    /\ miner = [a \in Audits |-> CHOOSE m \in Miners : TRUE]
    /\ response = [a \in Audits |-> NoSubgraph]
    /\ rtime = [a \in Audits |-> 0]
    /\ start_owner = [a \in Audits |-> ""]
    /\ pending = [a \in Audits |-> {}]
    /\ error = [a \in Audits |-> NoMsg]
    /\ score = [a \in Audits |-> NoScore]
    /\ sent = {}
    /\ history = <<>>

\* an audit leaves the state of the other specifications alone
AuditFrame == UNCHANGED <<gInput, gResult, store, spc, events, idx, duplicate_count,
                         ret, store0, generic, avgArgs, avgResult,
                         scores, normalized, hashArgs, hashResult>>

\* execute_challenge is called: lines 113-122, up to the await of execute_task.
\* Task ids are drawn in the order the audits start.
Start(a, m) ==
    /\ pc[a] = "idle"
    /\ \A b \in Audits : b < a => pc[b] # "idle"
    /\ pc' = [pc EXCEPT ![a] = "execute_task"]
    /\ miner' = [miner EXCEPT ![a] = m]
    /\ UNCHANGED <<owner, dashboard, response, rtime, start_owner, pending, error,
                   score, sent, history>>
    /\ AuditFrame

\* validate with the boundary queries issued before _validate_graph
MutExecuteTaskReturnQueryFirst(a, resp, rt) ==
    /\ pc[a] = "execute_task"
    /\ response' = [response EXCEPT ![a] = resp]
    /\ rtime' = [rtime EXCEPT ![a] = rt]
    /\ pc' = [pc EXCEPT ![a] = "start_owner"]
    /\ UNCHANGED <<owner, dashboard, miner, start_owner, pending, score, sent, history,
                   error>>
    /\ AuditFrame

\* execute_task returns (response, response_time_seconds); validate runs
\* _validate_graph and reaches the await of the first boundary query
ExecuteTaskReturn(a, resp, rt) ==
    /\ pc[a] = "execute_task"
    /\ response' = [response EXCEPT ![a] = resp]
    /\ rtime' = [rtime EXCEPT ![a] = rt]
    /\ LET g == ValidateGraph(resp) IN
         IF g = Ok
         THEN /\ pc' = [pc EXCEPT ![a] = "start_owner"]
              /\ UNCHANGED error
         ELSE /\ pc' = [pc EXCEPT ![a] = "zero_score"]
              /\ error' = [error EXCEPT ![a] = g]
    /\ UNCHANGED <<owner, dashboard, miner, start_owner, pending, score, sent, history>>
    /\ AuditFrame

\* execute_task raises MinerTaskException: lines 131-133
ExecuteTaskRaise(a) ==
    /\ pc[a] = "execute_task"
    /\ pc' = [pc EXCEPT ![a] = "zero_score"]
    /\ error' = [error EXCEPT ![a] = Msg("MinerTaskException", "", "", 0)]
    /\ rtime' = [rtime EXCEPT ![a] = 0]
    /\ UNCHANGED <<owner, dashboard, miner, response, start_owner, pending, score,
                   sent, history>>
    /\ AuditFrame

\* line 70 returns
StartOwnerReturn(a) ==
    /\ pc[a] = "start_owner"
    /\ start_owner' = [start_owner EXCEPT ![a] = owner[LOWER_BLOCK_LIMIT]]
    /\ pc' = [pc EXCEPT ![a] = "end_owner"]
    /\ UNCHANGED <<owner, dashboard, miner, response, rtime, pending, error, score,
                   sent, history>>
    /\ AuditFrame

\* get_hotkey_owner raises in line 70 or 71: the exception is neither a
\* ValidationException nor a MinerTaskException and leaves execute_challenge
BoundaryQueryRaise(a) ==
    /\ pc[a] \in {"start_owner", "end_owner"}
    /\ pc' = [pc EXCEPT ![a] = "raised"]
    /\ UNCHANGED <<owner, dashboard, miner, response, rtime, start_owner, pending,
                   error, score, sent, history>>
    /\ AuditFrame

\* the end owner left unchecked
MutBoundaryCheckStartOnly(ids, so, eo) ==
    IF so \notin ids THEN Msg("Start owner is not in the graph", so, "", 0)
    ELSE Ok

\* the checks of lines 74-79
BoundaryCheck(ids, so, eo) ==
    IF so \notin ids THEN Msg("Start owner is not in the graph", so, "", 0)
    ELSE IF eo \notin ids THEN Msg("End owner is not in the graph", eo, "", 0)
    ELSE Ok

\* line 71 returns; lines 74-79; _validate_edges creates the coroutines and
\* awaits gather (which returns at once when there is none)
EndOwnerReturn(a) ==
    /\ pc[a] = "end_owner"
    /\ LET end_owner == owner[max_block_number]
           c == BoundaryCheck(Range(response[a].nodes), start_owner[a], end_owner)
           qs == Queries(response[a].edges)
       IN IF c # Ok
          THEN /\ pc' = [pc EXCEPT ![a] = "zero_score"]
               /\ error' = [error EXCEPT ![a] = c]
               /\ UNCHANGED pending
          ELSE /\ pc' = [pc EXCEPT ![a] = IF qs = {} THEN "calc_score" ELSE "edges"]
               /\ pending' = [pending EXCEPT ![a] = qs]
               /\ UNCHANGED error
    /\ UNCHANGED <<owner, dashboard, miner, response, rtime, start_owner, score, sent,
                   history>>
    /\ AuditFrame

\* the destination compared at b-1 as well
MutOwnerMatchesSameBlock(edges, q, own) ==
    own[edges[q[1]].effective_block_number - 1] = QExpected(edges, q)

\* the comparison of line 85, on the answer to the query of line 84

OwnerMatches(edges, q, own) == own[QBlock(edges, q)] = QExpected(edges, q)

\* gather collecting every result before it raises (return_exceptions style):
\* a mismatch is recorded and the wait goes on until the last query completes
MutQueryReturnWaitAll(a, q) ==
    /\ pc[a] = "edges"
    /\ q \in pending[a]
    /\ pending' = [pending EXCEPT ![a] = @ \ {q}]
    /\ LET edges == response[a].edges
           failed == IF OwnerMatches(edges, q, owner) THEN error[a]
                     ELSE Msg("Expected hotkey_owner", QExpected(edges, q),
                              owner[QBlock(edges, q)], QBlock(edges, q))
       IN /\ error' = [error EXCEPT ![a] = failed]
          /\ pc' = [pc EXCEPT ![a] = IF pending[a] # {q} THEN "edges"
                                     ELSE IF failed = NoMsg THEN "calc_score"
                                     ELSE "zero_score"]
    /\ UNCHANGED <<owner, dashboard, miner, response, rtime, start_owner, score, sent,
                   history>>
    /\ AuditFrame

\* one chain_validation coroutine gets its answer while gather is awaited:
\* it returns, or raises the ValidationException of line 86, which gather
\* hands to _validate_edges at once
QueryReturn(a, q) ==
    /\ pc[a] = "edges"
    /\ q \in pending[a]
    /\ pending' = [pending EXCEPT ![a] = @ \ {q}]
    /\ LET edges == response[a].edges IN
         IF OwnerMatches(edges, q, owner)
         THEN /\ pc' = [pc EXCEPT ![a] = IF pending[a] = {q} THEN "calc_score" ELSE "edges"]
              /\ UNCHANGED error
         ELSE /\ pc' = [pc EXCEPT ![a] = "zero_score"]
              /\ error' = [error EXCEPT ![a] =
                     Msg("Expected hotkey_owner", QExpected(edges, q),
                         owner[QBlock(edges, q)], QBlock(edges, q))]
    /\ UNCHANGED <<owner, dashboard, miner, response, rtime, start_owner, score, sent,
                   history>>
    /\ AuditFrame

\* get_hotkey_owner raises in line 84 while gather is awaited
QueryRaise(a, q) ==
    /\ pc[a] = "edges"
    /\ q \in pending[a]
    /\ pending' = [pending EXCEPT ![a] = @ \ {q}]
    /\ pc' = [pc EXCEPT ![a] = "raised"]
    /\ UNCHANGED <<owner, dashboard, miner, response, rtime, start_owner, error, score,
                   sent, history>>
    /\ AuditFrame

\* a coroutine left in flight after gather has raised completes; nobody awaits it
QueryAbandoned(a, q) ==
    /\ pc[a] # "edges"
    /\ q \in pending[a]
    /\ pending' = [pending EXCEPT ![a] = @ \ {q}]
    /\ UNCHANGED <<owner, dashboard, pc, miner, response, rtime, start_owner, error,
                   score, sent, history>>
    /\ AuditFrame

\* line 126: find_latest_overall_scores returns and the MinerScore is built
CalcScore(a) ==
    /\ pc[a] = "calc_score"
    /\ score' = [score EXCEPT ![a] = CalculateScore(history, a, miner[a], rtime[a])]
    /\ pc' = [pc EXCEPT ![a] = "persist"]
    /\ UNCHANGED <<owner, dashboard, miner, response, rtime, start_owner, pending,
                   error, sent, history>>
    /\ AuditFrame

\* lines 129 and 133
ZeroScore(a) ==
    /\ pc[a] = "zero_score"
    /\ score' = [score EXCEPT ![a] =
                    CalculateZeroScore(history, a, miner[a], rtime[a], error[a])]
    /\ pc' = [pc EXCEPT ![a] = "persist"]
    /\ UNCHANGED <<owner, dashboard, miner, response, rtime, start_owner, pending,
                   error, sent, history>>
    /\ AuditFrame

\* line 135 reached on the success path only
MutPersistOnlyPassed(a) ==
    /\ pc[a] = "persist"
    /\ history' = IF score[a].validation_passed THEN Append(history, score[a])
                  ELSE history
    /\ pc' = [pc EXCEPT ![a] = IF dashboard THEN "send_score" ELSE "done"]
    /\ UNCHANGED <<owner, dashboard, miner, response, rtime, start_owner, pending,
                   error, score, sent>>
    /\ AuditFrame

\* line 135: score_repository.add
Persist(a) ==
    /\ pc[a] = "persist"
    /\ history' = Append(history, score[a])
    /\ pc' = [pc EXCEPT ![a] = IF dashboard THEN "send_score" ELSE "done"]
    /\ UNCHANGED <<owner, dashboard, miner, response, rtime, start_owner, pending,
                   error, score, sent>>
    /\ AuditFrame

\* lines 138-142: send_score returns, or raises and is logged
SendScoreReturn(a) ==
    /\ pc[a] = "send_score"
    /\ sent' = sent \cup {score[a]}
    /\ pc' = [pc EXCEPT ![a] = "done"]
    /\ UNCHANGED <<owner, dashboard, miner, response, rtime, start_owner, pending,
                   error, score, history>>
    /\ AuditFrame

\* the exception of send_score left uncaught
MutSendScoreRaiseUncaught(a) ==
    /\ pc[a] = "send_score"
    /\ pc' = [pc EXCEPT ![a] = "raised"]
    /\ UNCHANGED <<owner, dashboard, miner, response, rtime, start_owner, pending,
                   error, score, sent, history>>
    /\ AuditFrame

SendScoreRaise(a) ==
    /\ pc[a] = "send_score"
    /\ pc' = [pc EXCEPT ![a] = "done"]
    /\ UNCHANGED <<owner, dashboard, miner, response, rtime, start_owner, pending,
                   error, score, sent, history>>
    /\ AuditFrame

StoreIdle ==
    /\ store = <<>>
    /\ spc = "idle"
    /\ events = <<>>
    /\ idx = 0
    /\ duplicate_count = 0
    /\ ret = <<>>
    /\ store0 = <<>>
    /\ generic = FALSE

AvgIdle ==
    /\ avgArgs = [called |-> FALSE, miner |-> CHOOSE m \in Miners : TRUE, overall_score |-> 0]
    /\ avgResult = Frac(0, 1)

\* normalize_scores and create_event_hash not called
NormIdle ==
    /\ scores = <<>>
    /\ normalized = [called |-> FALSE, shape |-> "dict", items |-> <<>>]

HashIdle ==
    /\ hashArgs = <<>>
    /\ hashResult = <<>>

PureIdle == NormIdle /\ HashIdle

(***************************************************************************)
(* Specifications                                                          *)
(***************************************************************************)
Init == AuditInit /\ GraphIdle /\ StoreIdle /\ AvgIdle /\ PureIdle

\* the steps of audit a, its inputs drawn from responses R, response times T
\* and miners M
AuditStep(a, R, T, M) ==
    \/ \E m \in M : Start(a, m)
    \/ /\ pc[a] = "execute_task"
       /\ \E resp \in R, rt \in T : ExecuteTaskReturn(a, resp, rt)
    \/ ExecuteTaskRaise(a)
    \/ StartOwnerReturn(a)
    \/ BoundaryQueryRaise(a)
    \/ EndOwnerReturn(a)
    \/ \E q \in pending[a] : QueryReturn(a, q)
    \/ \E q \in pending[a] : QueryRaise(a, q)
    \/ \E q \in pending[a] : QueryAbandoned(a, q)
    \/ CalcScore(a)
    \/ ZeroScore(a)
    \/ Persist(a)

Next ==
    \E a \in Audits :
        \/ AuditStep(a, OrchResponses, ResponseTimes, Miners)
        \/ SendScoreReturn(a)
        \/ SendScoreRaise(a)

Spec == Init /\ [][Next]_vars

\* one audit, no dashboard, every bounded response
VerifyInit == AuditInit /\ dashboard = FALSE /\ GraphIdle /\ StoreIdle /\ AvgIdle
              /\ PureIdle

VerifyNext == AuditStep(1, Responses, {2}, {CHOOSE m \in Miners : TRUE})

SpecVerify == VerifyInit /\ [][VerifyNext]_vars

GraphNext == ValidateGraphCall

InitGraph == GraphInit /\ AuditIdle /\ history = <<>> /\ StoreIdle /\ AvgIdle
             /\ PureIdle

SpecGraph == InitGraph /\ [][GraphNext]_vars

(***************************************************************************)
(* Claims about the audits                                                 *)
(***************************************************************************)
\* the rows score_repository holds for task id a
RowsOf(a) == {i \in DOMAIN history : history[i].id = a}

\* execute_challenge has passed line 135
Persisted(a) == pc[a] \in {"send_score", "done"}

\* every edge of the response agrees with the ground truth on both sides
AllEdgesMatch(a) ==
    \A e \in Range(response[a].edges) :
        /\ owner[e.effective_block_number - 1] = e.coldkey_source
        /\ owner[e.effective_block_number + 1] = e.coldkey_destination

BoundaryOwnersPresent(a) ==
    /\ owner[LOWER_BLOCK_LIMIT] \in Range(response[a].nodes)
    /\ owner[max_block_number] \in Range(response[a].nodes)

\* C1: an audit whose dispatch raised a task exception, whose validation raised
\* a ValidationException or whose validation succeeded has no MinerScore row
\* before score_repository.add and exactly one row from then on, so it returns
\* with exactly one row: never zero, never two.
ThmC1 ==
    \A a \in Audits :
        /\ Cardinality(RowsOf(a)) <= 1
        /\ Persisted(a) => Cardinality(RowsOf(a)) = 1
        /\ pc[a] \in {"idle", "execute_task", "start_owner", "end_owner", "edges",
                      "calc_score", "zero_score", "persist"} => RowsOf(a) = {}
        /\ pc[a] \in {"calc_score", "zero_score"} => ENABLED (CalcScore(a) \/ ZeroScore(a))
        /\ pc[a] = "persist" => ENABLED Persist(a)

\* two audits have returned, one after a task exception and one after a
\* successful validation, each with its one row
WitC1 ==
    \E a, b \in Audits :
        /\ pc[a] = "done" /\ pc[b] = "done"
        /\ error[a].kind = "MinerTaskException" /\ Cardinality(RowsOf(a)) = 1
        /\ score[b].validation_passed /\ Cardinality(RowsOf(b)) = 1

\* C2: the MinerScore built after a caught failure is the zero score carrying
\* the failure's message (with response time 0 when the dispatch failed), the
\* persisted row is that MinerScore, and a MinerScore says validation_passed
\* only when the graph was valid, both boundary owners were nodes and every
\* edge matched the chain, in which case it has no error message.
ThmC2 ==
    \A a \in Audits :
        /\ (pc[a] \in {"persist", "send_score", "done"} /\ error[a] # NoMsg) =>
              /\ score[a].overall_score = 0
              /\ score[a].responsiveness_score = 0
              /\ score[a].validation_passed = FALSE
              /\ score[a].error_message = error[a]
              /\ error[a].kind = "MinerTaskException" =>
                    score[a].response_time_seconds = 0
        /\ score[a].validation_passed =>
              /\ error[a] = NoMsg
              /\ score[a].error_message = NoMsg
              /\ ValidateGraph(response[a]) = Ok
              /\ BoundaryOwnersPresent(a)
              /\ AllEdgesMatch(a)
        /\ \A i \in RowsOf(a) : history[i] = score[a]

\* an audit failed on an owner mismatch and its zero row is in the history
WitC2 ==
    \E a \in Audits :
        /\ pc[a] = "done"
        /\ error[a].kind = "Expected hotkey_owner"
        /\ \E i \in RowsOf(a) : history[i].error_message = error[a]
                                /\ history[i].overall_score = 0

\* C3: a failing ground-truth query is handled like an owner mismatch: the
\* audit is not lost; execute_challenge ends with a persisted zero MinerScore.
CexC3 ==
    \A a \in Audits :
        pc[a] = "raised" => \E i \in RowsOf(a) : ~history[i].validation_passed

\* C8: once the boundary check has passed, _validate_edges returns normally
\* exactly when every edge has owner(b-1) = source and owner(b+1) = destination
\* in the ground truth, whatever the order in which the queries complete; the
\* ValidationException of a mismatch names the expected owner, the actual
\* owner and the block of a query that does not match.
ThmC8 ==
    \A a \in Audits :
        LET edges == response[a].edges
            pastEdges == /\ pc[a] \in {"calc_score", "zero_score", "persist", "done"}
                         /\ ValidateGraph(response[a]) = Ok
                         /\ BoundaryCheck(Range(response[a].nodes),
                                          owner[LOWER_BLOCK_LIMIT],
                                          owner[max_block_number]) = Ok
        IN /\ pc[a] = "edges" => pending[a] # {}
           /\ pc[a] = "calc_score" => AllEdgesMatch(a) /\ pending[a] = {}
           /\ pastEdges => (error[a] = NoMsg <=> AllEdgesMatch(a))
           /\ error[a].kind = "Expected hotkey_owner" =>
                 \E q \in Queries(edges) :
                    /\ owner[QBlock(edges, q)] # QExpected(edges, q)
                    /\ error[a] = Msg("Expected hotkey_owner", QExpected(edges, q),
                                      owner[QBlock(edges, q)], QBlock(edges, q))

\* two edges, four queries, all answered and matching
WitC8 ==
    \E a \in Audits :
        /\ pc[a] = "calc_score"
        /\ Len(response[a].edges) = 2
        /\ pending[a] = {}

\* C9: an audit gets past the boundary check, and a MinerScore says
\* validation_passed, only if the owners at LOWER_BLOCK_LIMIT and at
\* max_block_number are both among the submitted node ids.
ThmC9 ==
    \A a \in Audits :
        (pc[a] \in {"edges", "calc_score"} \/ score[a].validation_passed)
            => BoundaryOwnersPresent(a)

\* verified with two different boundary owners, both submitted as nodes
WitC9 ==
    \E a \in Audits :
        /\ score[a].validation_passed
        /\ owner[LOWER_BLOCK_LIMIT] # owner[max_block_number]
        /\ BoundaryOwnersPresent(a)

(***************************************************************************)
(* Claims about _validate_graph                                            *)
(***************************************************************************)
\* the six structural rules, stated on the submitted lists
Rule1(g) == g.present /\ Len(g.nodes) >= 1
Rule2(g) == \A i, j \in DOMAIN g.nodes : i # j => g.nodes[i] # g.nodes[j]
Rule3(g) == \A i \in DOMAIN g.edges :
                g.edges[i].coldkey_source # g.edges[i].coldkey_destination
Rule4(g) == \A i \in DOMAIN g.edges :
                /\ g.edges[i].coldkey_source \in Range(g.nodes)
                /\ g.edges[i].coldkey_destination \in Range(g.nodes)
Rule5(g) == \A i, j \in DOMAIN g.edges : i # j => g.edges[i] # g.edges[j]
\* one weakly connected component: every split of the nodes in two non-empty
\* parts is crossed by an edge
Rule6(g) ==
    LET N == Range(g.nodes) IN
    \A S \in SUBSET N :
        (S # {} /\ S # N) =>
            \E i \in DOMAIN g.edges :
                LET s == g.edges[i].coldkey_source
                    d == g.edges[i].coldkey_destination
                IN (s \in S /\ d \in N \ S) \/ (d \in S /\ s \in N \ S)

SixRules(g) == Rule1(g) /\ Rule2(g) /\ Rule3(g) /\ Rule4(g) /\ Rule5(g) /\ Rule6(g)

\* C7: _validate_graph returns normally if and only if the six structural
\* rules hold of the subgraph, and raises a ValidationException otherwise.
ThmC7 ==
    gResult # NoMsg => (gResult = Ok <=> SixRules(gInput))

\* accepted: two edges between the same ordered pair at different blocks
WitC7 ==
    /\ gResult = Ok
    /\ Len(gInput.edges) = 2
    /\ gInput.edges[1].coldkey_source = gInput.edges[2].coldkey_source
    /\ gInput.edges[1].coldkey_destination = gInput.edges[2].coldkey_destination
    /\ gInput.edges[1].effective_block_number # gInput.edges[2].effective_block_number

(***************************************************************************)
(* Event store                                                             *)
(***************************************************************************)
\* event.get(key) on an event dict: None when the key is absent
NoneStr == "None"
NoneInt == -1
GetS(event, key) == IF key \in DOMAIN event THEN event[key] ELSE NoneStr
GetI(event, key) == IF key \in DOMAIN event THEN event[key] ELSE NoneInt

\* x or y
OrElse(x, y) == IF x = NoneStr \/ x = "" THEN y ELSE x

\* json.dumps of a value: a str in quotes, an int in digits, None as null.
\* (None is kept as NoneStr / NoneInt, which no event uses as a value.)
JsonStr(v) == IF v = NoneStr THEN "null" ELSE "\"" \o v \o "\""
JsonInt(v) == IF v = NoneInt THEN "null" ELSE ToString(v)

\* one "key": value member of the JSON object
JsonMember(key, text) == "\"" \o key \o "\": " \o text

\* create_event_hash with the staking fields hashed for every category
MutCreateEventHashAlwaysStaking(event) ==
    LET hash_fields ==
            [coldkey_source |-> GetS(event, "coldkey_source"),
             coldkey_destination |-> GetS(event, "coldkey_destination"),
             edge_category |-> OrElse(GetS(event, "edge_category"), GetS(event, "category")),
             edge_type |-> OrElse(GetS(event, "edge_type"), GetS(event, "type")),
             block_number |-> GetI(event, "block_number"),
             rao_amount |-> GetI(event, "rao_amount")]
    IN "{" \o JsonMember("block_number", JsonInt(hash_fields.block_number))
           \o ", " \o JsonMember("coldkey_destination", JsonStr(hash_fields.coldkey_destination))
           \o ", " \o JsonMember("coldkey_source", JsonStr(hash_fields.coldkey_source))
           \o ", " \o JsonMember("delegate_hotkey_destination",
                                  JsonStr(GetS(event, "delegate_hotkey_destination")))
           \o ", " \o JsonMember("delegate_hotkey_source",
                                  JsonStr(GetS(event, "delegate_hotkey_source")))
           \o ", " \o JsonMember("destination_net_uid",
                                  JsonInt(GetI(event, "destination_net_uid")))
           \o ", " \o JsonMember("edge_category", JsonStr(hash_fields.edge_category))
           \o ", " \o JsonMember("edge_type", JsonStr(hash_fields.edge_type))
           \o ", " \o JsonMember("rao_amount", JsonInt(hash_fields.rao_amount))
           \o ", " \o JsonMember("source_net_uid", JsonInt(GetI(event, "source_net_uid")))
           \o "}"

\* create_event_hash.  SHA-256 is taken to be collision free, so the digest is
\* kept as the text it is computed from: json.dumps(hash_fields,
\* sort_keys=True), the members in the lexicographic order of their keys.
create_event_hash(event) ==
    LET hash_fields ==
            [coldkey_source |-> GetS(event, "coldkey_source"),
             coldkey_destination |-> GetS(event, "coldkey_destination"),
             edge_category |-> OrElse(GetS(event, "edge_category"), GetS(event, "category")),
             edge_type |-> OrElse(GetS(event, "edge_type"), GetS(event, "type")),
             block_number |-> GetI(event, "block_number"),
             rao_amount |-> GetI(event, "rao_amount")]
    IN IF GetS(event, "edge_category") = "staking"
       THEN "{" \o JsonMember("block_number", JsonInt(hash_fields.block_number))
           \o ", " \o JsonMember("coldkey_destination", JsonStr(hash_fields.coldkey_destination))
           \o ", " \o JsonMember("coldkey_source", JsonStr(hash_fields.coldkey_source))
           \o ", " \o JsonMember("delegate_hotkey_destination",
                                  JsonStr(GetS(event, "delegate_hotkey_destination")))
           \o ", " \o JsonMember("delegate_hotkey_source",
                                  JsonStr(GetS(event, "delegate_hotkey_source")))
           \o ", " \o JsonMember("destination_net_uid",
                                  JsonInt(GetI(event, "destination_net_uid")))
           \o ", " \o JsonMember("edge_category", JsonStr(hash_fields.edge_category))
           \o ", " \o JsonMember("edge_type", JsonStr(hash_fields.edge_type))
           \o ", " \o JsonMember("rao_amount", JsonInt(hash_fields.rao_amount))
           \o ", " \o JsonMember("source_net_uid", JsonInt(GetI(event, "source_net_uid")))
           \o "}"
       ELSE "{" \o JsonMember("block_number", JsonInt(hash_fields.block_number))
           \o ", " \o JsonMember("coldkey_destination", JsonStr(hash_fields.coldkey_destination))
           \o ", " \o JsonMember("coldkey_source", JsonStr(hash_fields.coldkey_source))
           \o ", " \o JsonMember("edge_category", JsonStr(hash_fields.edge_category))
           \o ", " \o JsonMember("edge_type", JsonStr(hash_fields.edge_type))
           \o ", " \o JsonMember("rao_amount", JsonInt(hash_fields.rao_amount))
           \o "}"

\* _ChainEvent.from_event (created_at, the insertion time, is left out)
from_event(event) ==
    [coldkey_source |-> event["coldkey_source"],
     coldkey_destination |-> event["coldkey_destination"],
     edge_category |-> event["edge_category"],
     edge_type |-> event["edge_type"],
     coldkey_owner |-> GetS(event, "coldkey_owner"),
     block_number |-> event["block_number"],
     rao_amount |-> event["rao_amount"],
     destination_net_uid |-> GetI(event, "destination_net_uid"),
     source_net_uid |-> GetI(event, "source_net_uid"),
     alpha_amount |-> GetI(event, "alpha_amount"),
     delegate_hotkey_source |-> GetS(event, "delegate_hotkey_source"),
     delegate_hotkey_destination |-> GetS(event, "delegate_hotkey_destination"),
     edge_hash |-> create_event_hash(event)]

\* the event dicts handed to add_events
Transfer(blk, own) ==
    [coldkey_source |-> "A", coldkey_destination |-> "B", edge_category |-> "balance",
     edge_type |-> "transfer", coldkey_owner |-> own, block_number |-> blk,
     rao_amount |-> 5]

Stake(hk) ==
    [coldkey_source |-> "A", coldkey_destination |-> "B", edge_category |-> "staking",
     edge_type |-> "add", coldkey_owner |-> "A", block_number |-> 10, rao_amount |-> 5,
     destination_net_uid |-> 1, source_net_uid |-> 0, alpha_amount |-> 7,
     delegate_hotkey_source |-> hk, delegate_hotkey_destination |-> "hk2"]

\* Transfer(10, "A") and Transfer(10, "B") are one logical event
EventSet == {Transfer(10, "A"), Transfer(10, "B"), Transfer(11, "A"), Stake("hk1")}

MaxBatch == 3

Batches == SeqsUpTo(EventSet, MaxBatch)

\* the rows of the table, as a bag
Hashes(st) == {r.edge_hash : r \in BagToSet(st)}

\* uniqueness taken over the whole row
MutViolatesPrimaryKeyWholeRow(st, row) == row \in BagToSet(st)

\* the primary key of line 53: an INSERT of row fails on a table holding a
\* row of the same edge_hash
ViolatesPrimaryKey(st, row) == row.edge_hash \in Hashes(st)

RECURSIVE InsertAll(_, _, _)
\* INSERT the rows from index i on; <<ok, table>>
InsertAll(st, rows, i) ==
    IF i > Len(rows) THEN <<TRUE, st>>
    ELSE IF ViolatesPrimaryKey(st, rows[i]) THEN <<FALSE, st>>
    ELSE InsertAll(st (+) SetToBag({rows[i]}), rows, i + 1)

\* add_events returns None
RetNone == <<>>

StoreInit ==
    /\ store = EmptyBag
    /\ spc = "idle"
    /\ events = <<>>
    /\ idx = 0
    /\ duplicate_count = 0
    /\ ret = RetNone
    /\ store0 = EmptyBag
    /\ generic = FALSE

StoreFrame == UNCHANGED <<owner, dashboard, pc, miner, response, rtime, start_owner,
                          pending, error, score, sent, history, gInput, gResult,
                          avgArgs, avgResult, scores, normalized, hashArgs,
                          hashResult>>

\* lines 114-124: the batch is added and committed in one transaction
BatchCommit(event_data_list) ==
    /\ spc = "idle"
    /\ LET rows == [i \in DOMAIN event_data_list |-> from_event(event_data_list[i])]
           r == InsertAll(store, rows, 1)
       IN /\ r[1]
          /\ events' = rows
          /\ store0' = store
          /\ store' = r[2]
    /\ spc' = "returned"
    /\ ret' = RetNone
    /\ idx' = 0
    /\ duplicate_count' = 0
    /\ generic' = FALSE
    /\ StoreFrame

\* the failed commit not rolled back: the rows before the collision stay
MutBatchIntegrityErrorNoRollback(event_data_list) ==
    /\ spc = "idle"
    /\ LET rows == [i \in DOMAIN event_data_list |-> from_event(event_data_list[i])]
           r == InsertAll(store, rows, 1)
       IN /\ ~r[1]
          /\ events' = rows
          /\ store' = r[2]
    /\ store0' = store
    /\ spc' = "fallback"
    /\ idx' = 1
    /\ duplicate_count' = 0
    /\ generic' = FALSE
    /\ UNCHANGED ret
    /\ StoreFrame

\* lines 125-128: the commit fails on the primary key and is rolled back
BatchIntegrityError(event_data_list) ==
    /\ spc = "idle"
    /\ LET rows == [i \in DOMAIN event_data_list |-> from_event(event_data_list[i])]
       IN /\ ~InsertAll(store, rows, 1)[1]
          /\ events' = rows
    /\ store0' = store
    /\ spc' = "fallback"
    /\ idx' = 1
    /\ duplicate_count' = 0
    /\ generic' = FALSE
    /\ UNCHANGED <<store, ret>>
    /\ StoreFrame

\* lines 129-132: the batch fails with another error and is rolled back
BatchError(event_data_list) ==
    /\ spc = "idle"
    /\ events' = [i \in DOMAIN event_data_list |-> from_event(event_data_list[i])]
    /\ store0' = store
    /\ spc' = "fallback"
    /\ idx' = 1
    /\ duplicate_count' = 0
    /\ generic' = TRUE
    /\ UNCHANGED <<store, ret>>
    /\ StoreFrame

\* lines 136-139: the event is inserted in its own transaction
ItemCommit ==
    /\ spc = "fallback" /\ idx <= Len(events)
    /\ ~ViolatesPrimaryKey(store, events[idx])
    /\ store' = store (+) SetToBag({events[idx]})
    /\ idx' = idx + 1
    /\ UNCHANGED <<spc, events, duplicate_count, ret, store0, generic>>
    /\ StoreFrame

\* break in place of continue
MutItemIntegrityErrorBreak ==
    /\ spc = "fallback" /\ idx <= Len(events)
    /\ ViolatesPrimaryKey(store, events[idx])
    /\ duplicate_count' = duplicate_count + 1
    /\ idx' = Len(events) + 1
    /\ UNCHANGED <<store, spc, events, ret, store0, generic>>
    /\ StoreFrame

\* lines 140-144
ItemIntegrityError ==
    /\ spc = "fallback" /\ idx <= Len(events)
    /\ ViolatesPrimaryKey(store, events[idx])
    /\ duplicate_count' = duplicate_count + 1
    /\ idx' = idx + 1
    /\ UNCHANGED <<store, spc, events, ret, store0, generic>>
    /\ StoreFrame

\* the other error ending the loop
MutItemErrorAbort ==
    /\ spc = "fallback" /\ idx <= Len(events)
    /\ generic' = TRUE
    /\ idx' = Len(events) + 1
    /\ UNCHANGED <<store, spc, events, duplicate_count, ret, store0>>
    /\ StoreFrame

\* lines 145-149
ItemError ==
    /\ spc = "fallback" /\ idx <= Len(events)
    /\ generic' = TRUE
    /\ idx' = idx + 1
    /\ UNCHANGED <<store, spc, events, duplicate_count, ret, store0>>
    /\ StoreFrame

\* lines 151-152: the loop is over, the count is logged, the function ends
FallbackReturn ==
    /\ spc = "fallback" /\ idx > Len(events)
    /\ spc' = "returned"
    /\ ret' = RetNone
    /\ UNCHANGED <<store, events, idx, duplicate_count, store0, generic>>
    /\ StoreFrame

\* the caller has the result; the locals of the call are gone
CallOver ==
    /\ spc = "returned"
    /\ spc' = "idle"
    /\ events' = <<>>
    /\ idx' = 0
    /\ duplicate_count' = 0
    /\ ret' = RetNone
    /\ store0' = EmptyBag
    /\ generic' = FALSE
    /\ UNCHANGED store
    /\ StoreFrame

\* SELECT max(block_number) FROM event_store, read with result.scalar():
\* None on an empty table
SelectMaxBlockNumber(st) ==
    IF st = EmptyBag THEN RetNone
    ELSE LET blocks == {r.block_number : r \in BagToSet(st)}
         IN <<CHOOSE b \in blocks : \A c \in blocks : c <= b>>

\* get_highest_block_from_db, lines 181-192: the query returns
HighestBlockReturn ==
    /\ spc = "idle"
    /\ spc' = "highest_returned"
    /\ ret' = SelectMaxBlockNumber(store)
    /\ store0' = store
    /\ generic' = FALSE
    /\ UNCHANGED <<store, events, idx, duplicate_count>>
    /\ StoreFrame

\* the exception of the query left uncaught
MutHighestBlockRaiseUncaught ==
    /\ spc = "idle"
    /\ spc' = "highest_raised"
    /\ ret' = RetNone
    /\ store0' = store
    /\ generic' = TRUE
    /\ UNCHANGED <<store, events, idx, duplicate_count>>
    /\ StoreFrame

\* lines 193-194: the session or the query raises; None is returned
HighestBlockRaise ==
    /\ spc = "idle"
    /\ spc' = "highest_returned"
    /\ ret' = RetNone
    /\ store0' = store
    /\ generic' = TRUE
    /\ UNCHANGED <<store, events, idx, duplicate_count>>
    /\ StoreFrame

\* the caller has the highest block (or None)
HighestOver ==
    /\ spc \in {"highest_returned", "highest_raised"}
    /\ spc' = "idle"
    /\ ret' = RetNone
    /\ store0' = EmptyBag
    /\ generic' = FALSE
    /\ UNCHANGED <<store, events, idx, duplicate_count>>
    /\ StoreFrame

StoreNext ==
    \/ \E b \in Batches : BatchCommit(b)
    \/ \E b \in Batches : BatchIntegrityError(b)
    \/ \E b \in Batches : BatchError(b)
    \/ ItemCommit
    \/ ItemIntegrityError
    \/ ItemError
    \/ FallbackReturn
    \/ CallOver
    \/ HighestBlockReturn
    \/ HighestBlockRaise
    \/ HighestOver

InitStore == StoreInit /\ AuditIdle /\ history = <<>> /\ GraphIdle /\ AvgIdle
             /\ PureIdle

SpecStore == InitStore /\ [][StoreNext]_vars

(***************************************************************************)
(* Claims about add_events                                                 *)
(***************************************************************************)
\* no two rows of the table share an edge_hash
OneRowPerHash(st) ==
    \A r \in BagToSet(st) :
        /\ CopiesIn(r, st) = 1
        /\ \A r2 \in BagToSet(st) : r2.edge_hash = r.edge_hash => r2 = r

\* the events of the running call that repeat a stored row or an earlier
\* event of the batch
Repeats ==
    {i \in DOMAIN events :
        \/ events[i].edge_hash \in Hashes(store0)
        \/ \E j \in 1..(i - 1) : events[j].edge_hash = events[i].edge_hash}

\* C4: whatever batches add_events is called with, the store never holds two
\* rows of one edge_hash; an event already stored, or repeated in the batch,
\* leaves exactly one row of its hash and is counted as a duplicate by the
\* per-item fallback.
ThmC4 ==
    /\ OneRowPerHash(store)
    /\ spc = "returned" =>
          \A i \in DOMAIN events :
              events[i].edge_hash \in Hashes(store0) =>
                  events[i].edge_hash \in Hashes(store)
    /\ (spc = "returned" /\ ~generic) =>
          /\ duplicate_count = Cardinality(Repeats)
          /\ \A i \in DOMAIN events : events[i].edge_hash \in Hashes(store)

\* a batch holding a stored event and one logical event twice has gone
\* through: two duplicates, one row each
WitC4 ==
    /\ spc = "returned" /\ ~generic
    /\ Len(events) = 3
    /\ events[1].edge_hash \in Hashes(store0)
    /\ events[2].edge_hash \notin Hashes(store0)
    /\ events[3].edge_hash = events[2].edge_hash
    /\ events[3] # events[2]
    /\ duplicate_count = 2
    /\ OneRowPerHash(store)

\* event i of the finished call collides with a stored row; the others are
\* new and pairwise distinct
OneCollision(i) ==
    /\ spc = "returned"
    /\ i \in DOMAIN events
    /\ events[i].edge_hash \in Hashes(store0)
    /\ \A j \in DOMAIN events \ {i} :
          /\ events[j].edge_hash \notin Hashes(store0)
          /\ \A k \in DOMAIN events \ {j} : events[k].edge_hash # events[j].edge_hash

OthersStoredOneDuplicate(i) ==
    /\ \A j \in DOMAIN events \ {i} : events[j] \in BagToSet(store)
    /\ duplicate_count = 1

CexC6 ==
    spc = "returned" =>
        ret = <<BagCardinality(store) - BagCardinality(store0), duplicate_count>>

(***************************************************************************)
(* SpecAvg: _moving_average over bounded score histories                   *)
(***************************************************************************)
MaxHistory == 13

AvgScores == {0, 100}

TheMiner == CHOOSE m \in Miners : TRUE
OtherMiner == CHOOSE m \in Miners : m # TheMiner

ScoreRow(m, t, overall) ==
    [id |-> 0, miner |-> m, overall_score |-> overall, responsiveness_score |-> 0,
     overall_score_moving_average |-> Frac(0, 1), response_time_seconds |-> 0,
     validation_passed |-> overall > 0, error_message |-> NoMsg, task_type |-> t]

\* rows of another miner and of another task type, older than the miner's own
AvgPrefixes ==
    {<<>>,
     <<ScoreRow(OtherMiner, HOTKEY_OWNERSHIP, 100)>>,
     <<ScoreRow(TheMiner, COLDKEY_SEARCH, 100)>>,
     <<ScoreRow(OtherMiner, HOTKEY_OWNERSHIP, 100), ScoreRow(TheMiner, COLDKEY_SEARCH, 100)>>}

NoArgs == [called |-> FALSE, miner |-> TheMiner, overall_score |-> 0]

AvgInit ==
    /\ history \in AvgPrefixes
    /\ avgArgs = NoArgs
    /\ avgResult = Frac(0, 1)

AvgFrame == UNCHANGED <<owner, dashboard, pc, miner, response, rtime, start_owner,
                        pending, error, score, sent, gInput, gResult, store, spc,
                        events, idx, duplicate_count, ret, store0, generic,
                        scores, normalized, hashArgs, hashResult>>

\* score_repository.add of an earlier audit of the miner
AddScore(overall) ==
    /\ ~avgArgs.called
    /\ Len(Select(history, TheMiner, HOTKEY_OWNERSHIP)) < MaxHistory
    /\ history' = Append(history, ScoreRow(TheMiner, HOTKEY_OWNERSHIP, overall))
    /\ UNCHANGED <<avgArgs, avgResult>>
    /\ AvgFrame

\* _moving_average(overall_score, miner)
MovingAverageCall(overall_score, m) ==
    /\ ~avgArgs.called
    /\ avgArgs' = [called |-> TRUE, miner |-> m, overall_score |-> overall_score]
    /\ avgResult' = MovingAverage(history, overall_score, m)
    /\ UNCHANGED history
    /\ AvgFrame

AvgNext ==
    \/ \E s \in AvgScores : AddScore(s)
    \/ \E s \in AvgScores, m \in Miners : MovingAverageCall(s, m)

InitAvg == AvgInit /\ AuditIdle /\ GraphIdle /\ StoreIdle /\ PureIdle

SpecAvg == InitAvg /\ [][AvgNext]_vars

(***************************************************************************)
(* Claims about the moving average                                         *)
(***************************************************************************)
\* the rows of miner m under task type t
RowsFor(m, t) == {i \in DOMAIN history : history[i].miner = m /\ history[i].task_type = t}

\* the n most recent of them
MostRecent(m, t, n) ==
    {i \in RowsFor(m, t) : Cardinality({j \in RowsFor(m, t) : j > i}) < n}

RECURSIVE SumScores(_)
SumScores(I) ==
    IF I = {} THEN 0
    ELSE LET i == CHOOSE x \in I : TRUE
         IN history[i].overall_score + SumScores(I \ {i})

\* C10: the pass/fail moving average is the mean of the new overall score and
\* the up to N-1 most recent prior HOTKEY_OWNERSHIP scores of the same miner:
\* the new score is always averaged and at most N values are.
ThmC10 ==
    avgArgs.called =>
        LET W == MostRecent(avgArgs.miner, HOTKEY_OWNERSHIP, moving_average_denominator - 1)
        IN /\ avgResult = Frac(SumScores(W) + avgArgs.overall_score, Cardinality(W) + 1)
           /\ Cardinality(W) + 1 <= moving_average_denominator

\* more prior scores than the window holds: the oldest, a 100, is left out,
\* the new score is in, and rows of another miner are in the history
WitC10 ==
    /\ avgArgs.called
    /\ avgArgs.miner = TheMiner
    /\ avgArgs.overall_score = 100
    /\ Cardinality(RowsFor(TheMiner, HOTKEY_OWNERSHIP)) >= moving_average_denominator
    /\ RowsFor(OtherMiner, HOTKEY_OWNERSHIP) # {}
    /\ \E i \in RowsFor(TheMiner, HOTKEY_OWNERSHIP) :
          /\ i \notin MostRecent(TheMiner, HOTKEY_OWNERSHIP, moving_average_denominator - 1)
          /\ history[i].overall_score = 100
    /\ avgResult # Frac(100, 1)

(***************************************************************************)
(* Volume/responsiveness policy: MinerScoring (miner_scoring.py)           *)
(***************************************************************************)
NUMBER_OF_LOW_SCORES_TO_DISCARD == 2

\* the result of a division by zero (ZeroDivisionError), kept apart from
\* every quotient
ZeroDivisionError == [num |-> 0, den |-> 0]

\* sum(s) / len(s) on a list that may be empty
MeanOrError(s) == IF s = <<>> THEN ZeroDivisionError ELSE Mean(s)

\* s[:n] of Python: a negative n counts from the end
PySlice(s, n) ==
    IF n >= 0 THEN Slice(s, n)
    ELSE SubSeq(s, 1, IF Len(s) + n > 0 THEN Len(s) + n ELSE 0)

\* x put in its place in the descending list s
RECURSIVE InsertDesc(_, _)
InsertDesc(x, s) ==
    IF s = <<>> THEN <<x>>
    ELSE IF x >= Head(s) THEN <<x>> \o s
    ELSE <<Head(s)>> \o InsertDesc(x, Tail(s))

\* sorted(s, reverse=True)
RECURSIVE SortedReverse(_)
SortedReverse(s) ==
    IF s = <<>> THEN <<>> ELSE InsertDesc(Head(s), SortedReverse(Tail(s)))

\* MinerScoring._moving_average without the sort
MutMinerScoringMovingAverageUnsorted(rows, overall_score, m, N) ==
    LET previous_scores == find_latest_overall_scores(rows, m, COLDKEY_SEARCH, N - 1)
                           \o <<overall_score>>
        denominator == N - NUMBER_OF_LOW_SCORES_TO_DISCARD
    IN MeanOrError(PySlice(previous_scores, denominator))

\* MinerScoring._moving_average, N being self.moving_average_denominator
MinerScoringMovingAverage(rows, overall_score, m, N) ==
    LET previous_scores == find_latest_overall_scores(rows, m, COLDKEY_SEARCH, N - 1)
                           \o <<overall_score>>
        numerator_scores == SortedReverse(previous_scores)
        denominator == N - NUMBER_OF_LOW_SCORES_TO_DISCARD
    IN MeanOrError(PySlice(numerator_scores, denominator))

(***************************************************************************)
(* SpecVolume: MinerScoring._moving_average over bounded score histories,  *)
(* for every bounded moving_average_denominator                            *)
(***************************************************************************)
MaxDenominator == 5

\* overall scores of the volume policy, in hundredths
VolumeScores == {10, 90, 95}

\* rows of another miner and of another task type, older than the miner's own
VolumePrefixes ==
    {<<>>,
     <<ScoreRow(OtherMiner, COLDKEY_SEARCH, 95)>>,
     <<ScoreRow(TheMiner, HOTKEY_OWNERSHIP, 95)>>,
     <<ScoreRow(OtherMiner, COLDKEY_SEARCH, 95), ScoreRow(TheMiner, HOTKEY_OWNERSHIP, 95)>>}

\* MinerScoring.__init__(miner_score_repository, moving_average_denominator)
VolumeInit ==
    /\ history \in VolumePrefixes
    /\ \E N \in 1..MaxDenominator :
          avgArgs = [called |-> FALSE, miner |-> TheMiner, overall_score |-> 0,
                     denominator |-> N]
    /\ avgResult = Frac(0, 1)

\* miner_score_repository.add of an earlier COLDKEY_SEARCH score of the miner
VolumeAddScore(overall) ==
    /\ ~avgArgs.called
    /\ Len(Select(history, TheMiner, COLDKEY_SEARCH)) < avgArgs.denominator
    /\ history' = Append(history, ScoreRow(TheMiner, COLDKEY_SEARCH, overall))
    /\ UNCHANGED <<avgArgs, avgResult>>
    /\ AvgFrame

\* MinerScoring._moving_average(overall_score, miner)
VolumeMovingAverageCall(overall_score, m) ==
    /\ ~avgArgs.called
    /\ avgArgs' = [avgArgs EXCEPT !.called = TRUE, !.miner = m,
                                  !.overall_score = overall_score]
    /\ avgResult' = MinerScoringMovingAverage(history, overall_score, m,
                                              avgArgs.denominator)
    /\ UNCHANGED history
    /\ AvgFrame

VolumeNext ==
    \/ \E s \in VolumeScores : VolumeAddScore(s)
    \/ \E s \in VolumeScores, m \in Miners : VolumeMovingAverageCall(s, m)

InitVolume == VolumeInit /\ AuditIdle /\ GraphIdle /\ StoreIdle /\ PureIdle

SpecVolume == InitVolume /\ [][VolumeNext]_vars

(***************************************************************************)
(* Claims about the volume policy's moving average                         *)
(***************************************************************************)
\* the window of the finished call: the up to N-1 most recent prior
\* COLDKEY_SEARCH rows of the miner
VolumeWindow == MostRecent(avgArgs.miner, COLDKEY_SEARCH, avgArgs.denominator - 1)

\* K (prior rows) and, when withNew, the new score are `size` values of the
\* window none of which is lower than a value left out
IsHighest(K, withNew, size) ==
    LET new == avgArgs.overall_score
        keptVals == {history[i].overall_score : i \in K}
                    \cup (IF withNew THEN {new} ELSE {})
        leftVals == {history[i].overall_score : i \in VolumeWindow \ K}
                    \cup (IF withNew THEN {} ELSE {new})
    IN /\ K \subseteq VolumeWindow
       /\ Cardinality(K) + (IF withNew THEN 1 ELSE 0) = size
       /\ \A x \in keptVals, y \in leftVals : x >= y

\* the mean of the `size` highest values of the window and the new score
IsMeanOfHighest(size) ==
    /\ size >= 1
    /\ \E K \in SUBSET VolumeWindow, withNew \in BOOLEAN :
          /\ IsHighest(K, withNew, size)
          /\ avgResult = Frac(SumScores(K) + (IF withNew THEN avgArgs.overall_score ELSE 0),
                              size)

MinOf(S) == CHOOSE x \in S : \A y \in S : x <= y
MaxOf(S) == CHOOSE x \in S : \A y \in S : x >= y

\* round(n / d, 6) for naturals n <= d, d > 0: the nearest multiple of 10^-6,
\* ties to the even one, kept exact
Round6(n, d) ==
    LET q == (1000000 * n) \div d
        r == (1000000 * n) % d
        up == IF 2 * r > d THEN 1
              ELSE IF 2 * r = d THEN q % 2
              ELSE 0
    IN Frac(q + up, 1000000)

\* a returned dict (items: key -> value) or list (items: the values in order)
PyDict(items) == [called |-> TRUE, shape |-> "dict", items |-> items]
PyList(items) == [called |-> TRUE, shape |-> "list", items |-> items]

\* normalize_scores(scores)
normalize_scores(sc) ==
    IF DOMAIN sc = {} THEN PyDict(<<>>)
    ELSE LET min_score == MinOf({sc[uid] : uid \in DOMAIN sc})
             max_score == MaxOf({sc[uid] : uid \in DOMAIN sc})
         IN IF min_score = max_score
            THEN PyList([i \in 1..Cardinality(DOMAIN sc) |-> Frac(1, 1)])
            ELSE PyDict([uid \in DOMAIN sc |->
                            Round6(sc[uid] - min_score, max_score - min_score)])

(***************************************************************************)
(* SpecNormalize: normalize_scores on bounded mappings                     *)
(***************************************************************************)
MaxNormScore == 3

\* miner uids
NormUids == {3, 5, 8}

\* a call of a pure function leaves the audits, the stores and the averages alone
PureFrame == UNCHANGED <<owner, dashboard, pc, miner, response, rtime, start_owner,
                         pending, error, score, sent, history, gInput, gResult,
                         store, spc, events, idx, duplicate_count, ret, store0,
                         generic, avgArgs, avgResult>>

NormInit ==
    /\ \E S \in SUBSET NormUids : scores \in [S -> 0..MaxNormScore]
    /\ normalized = [called |-> FALSE, shape |-> "dict", items |-> <<>>]

NormalizeCall ==
    /\ ~normalized.called
    /\ normalized' = normalize_scores(scores)
    /\ UNCHANGED <<scores, hashArgs, hashResult>>
    /\ PureFrame

NormNext == NormalizeCall

InitNormalize == NormInit /\ HashIdle /\ AuditIdle /\ history = <<>> /\ GraphIdle
                 /\ StoreIdle /\ AvgIdle

SpecNormalize == InitNormalize /\ [][NormNext]_vars

\* C12: normalize_scores returns a mapping over exactly the ids of its
\* argument, every value in [0,1]: (score - min)/(max - min) when minimum and
\* maximum differ (0 for the minimum, 1 for the maximum), and 1.0 for every id
\* when all scores are equal.
CexC12 ==
    normalized.called =>
        /\ normalized.shape = "dict"
        /\ DOMAIN normalized.items = DOMAIN scores
        /\ \A uid \in DOMAIN scores :
              LET V == {scores[u] : u \in DOMAIN scores}
                  v == normalized.items[uid]
              IN /\ 0 <= v.num /\ v.num <= v.den
                 /\ MinOf(V) # MaxOf(V) =>
                       v = Frac(scores[uid] - MinOf(V), MaxOf(V) - MinOf(V))
                 /\ MinOf(V) = MaxOf(V) => v = Frac(1, 1)

(***************************************************************************)
(* Claims about telemetry and the order of the stages                      *)
(***************************************************************************)
\* the send_score of an audit raised: the audit has returned, a dashboard
\* client is configured and the dashboard did not get the score
SendScoreFailed(a) == pc[a] = "done" /\ dashboard /\ score[a] \notin sent

\* where send_score stands with respect to the rows and the dashboard
TelemetryInv ==
    \A a \in Audits :
        /\ pc[a] = "send_score" => dashboard
        /\ pc[a] = "send_score" => \E i \in RowsOf(a) : history[i] = score[a]
        /\ score[a] \in sent => pc[a] = "done" /\ \E i \in RowsOf(a) : history[i] = score[a]
        /\ ~dashboard => sent = {}
        /\ \A s \in sent : \E b \in Audits : s = score[b]

\* what a step may do to an audit that is at, or past, send_score
TelemetryStep ==
    \A a \in Audits :
        /\ (pc'[a] = "send_score" /\ pc[a] # "send_score") => pc[a] = "persist"
        /\ pc[a] = "send_score" => pc'[a] \in {"send_score", "done"}
        /\ pc[a] = "done" => pc'[a] = "done" /\ (score[a] \in sent <=> score[a] \in sent')
        /\ pc[a] \in {"send_score", "done"} =>
              /\ score'[a] = score[a]
              /\ \A i \in RowsOf(a) : i \in DOMAIN history' /\ history'[i] = history[i]
              /\ \A i \in DOMAIN history' : history'[i].id = a => i \in RowsOf(a)

\* C13: send_score is awaited only with a dashboard client configured, only
\* after the score is in the repository, and once: whether it returns or
\* raises, the audit goes on to return its task id, the MinerScore and its row
\* stay as they were, and send_score is not called again.
ThmC13 == []TelemetryInv /\ [][TelemetryStep]_vars

\* send_score raised in one audit and returned in another: both audits have
\* returned and both rows are in the repository
WitC13 ==
    \E a, b \in Audits :
        /\ SendScoreFailed(a)
        /\ \E i \in RowsOf(a) : history[i] = score[a]
        /\ pc[b] = "done" /\ score[b] \in sent

(***************************************************************************)
(* SpecHash: create_event_hash on two event dicts.  A dict is kept as the  *)
(* list of its (key, value) items in insertion order; the second dict is   *)
(* the first one after a few edits.                                        *)
(***************************************************************************)
MaxEdits == 2

StrKeys == {"coldkey_source", "coldkey_destination", "edge_category", "edge_type",
            "category", "type", "coldkey_owner", "delegate_hotkey_source",
            "delegate_hotkey_destination"}
IntKeys == {"block_number", "rao_amount", "destination_net_uid", "source_net_uid",
            "alpha_amount"}

StrValues == {"", "staking", "Z"}
IntValues == {5, 6}

\* the keys of a dict
DictKeys(items) == {items[i][1] : i \in DOMAIN items}

\* the position of a key
KeyIndex(items, key) == CHOOSE i \in DOMAIN items : items[i][1] = key

\* the mapping event.get and event[...] look keys up in
AsDict(items) == [key \in DictKeys(items) |-> items[KeyIndex(items, key)][2]]

\* del event[key]
DictDel(items, key) == SelectSeq(items, LAMBDA p : p[1] # key)

\* event[key] = value: in place when the key is there, at the end otherwise
DictSet(items, key, value) ==
    IF key \in DictKeys(items)
    THEN [items EXCEPT ![KeyIndex(items, key)] = <<key, value>>]
    ELSE Append(items, <<key, value>>)

\* the transfer and the stake of the event store, and a transfer written
\* with the keys category and type
HashBase ==
    {<<<<"coldkey_source", "A">>, <<"coldkey_destination", "B">>,
       <<"edge_category", "balance">>, <<"edge_type", "transfer">>,
       <<"coldkey_owner", "A">>, <<"block_number", 10>>, <<"rao_amount", 5>>>>,
     <<<<"coldkey_source", "A">>, <<"coldkey_destination", "B">>,
       <<"edge_category", "staking">>, <<"edge_type", "add">>,
       <<"coldkey_owner", "A">>, <<"block_number", 10>>, <<"rao_amount", 5>>,
       <<"destination_net_uid", 1>>, <<"source_net_uid", 0>>, <<"alpha_amount", 7>>,
       <<"delegate_hotkey_source", "hk1">>, <<"delegate_hotkey_destination", "hk2">>>>,
     <<<<"coldkey_source", "A">>, <<"coldkey_destination", "B">>,
       <<"category", "balance">>, <<"type", "transfer">>,
       <<"block_number", 10>>, <<"rao_amount", 5>>>>}

NoHashes == [called |-> FALSE, first |-> "", second |-> ""]

HashInit ==
    /\ \E e \in HashBase : hashArgs = [first |-> e, second |-> e, edits |-> 0]
    /\ hashResult = NoHashes

\* the second dict gets a value under a key
EditSet(key, value) ==
    /\ ~hashResult.called /\ hashArgs.edits < MaxEdits
    /\ hashArgs' = [hashArgs EXCEPT !.second = DictSet(@, key, value), !.edits = @ + 1]
    /\ UNCHANGED <<hashResult, scores, normalized>>
    /\ PureFrame

\* a key of the second dict is deleted
EditDel(key) ==
    /\ ~hashResult.called /\ hashArgs.edits < MaxEdits
    /\ key \in DictKeys(hashArgs.second)
    /\ hashArgs' = [hashArgs EXCEPT !.second = DictDel(@, key), !.edits = @ + 1]
    /\ UNCHANGED <<hashResult, scores, normalized>>
    /\ PureFrame

\* a key of the second dict is deleted and set again: it moves to the end
EditMove(key) ==
    /\ ~hashResult.called /\ hashArgs.edits < MaxEdits
    /\ key \in DictKeys(hashArgs.second)
    /\ hashArgs' = [hashArgs EXCEPT
                      !.second = Append(DictDel(@, key), @[KeyIndex(@, key)]),
                      !.edits = @ + 1]
    /\ UNCHANGED <<hashResult, scores, normalized>>
    /\ PureFrame

\* create_event_hash is applied to both dicts
HashCall ==
    /\ ~hashResult.called
    /\ hashResult' = [called |-> TRUE,
                      first |-> create_event_hash(AsDict(hashArgs.first)),
                      second |-> create_event_hash(AsDict(hashArgs.second))]
    /\ UNCHANGED <<hashArgs, scores, normalized>>
    /\ PureFrame

HashNext ==
    \/ \E key \in StrKeys, value \in StrValues : EditSet(key, value)
    \/ \E key \in IntKeys, value \in IntValues : EditSet(key, value)
    \/ \E key \in StrKeys \cup IntKeys : EditDel(key)
    \/ \E key \in StrKeys \cup IntKeys : EditMove(key)
    \/ HashCall

InitHash == HashInit /\ NormIdle /\ AuditIdle /\ history = <<>> /\ GraphIdle
            /\ StoreIdle /\ AvgIdle

SpecHash == InitHash /\ [][HashNext]_vars


(***************************************************************************)
(* Claims about create_event_hash                                          *)
(***************************************************************************)
FirstEvent == AsDict(hashArgs.first)
SecondEvent == AsDict(hashArgs.second)

StakingStrKeys == {"delegate_hotkey_source", "delegate_hotkey_destination"}
StakingIntKeys == {"destination_net_uid", "source_net_uid"}

AgreeOnStr(K) == \A key \in K : GetS(FirstEvent, key) = GetS(SecondEvent, key)
AgreeOnInt(K) == \A key \in K : GetI(FirstEvent, key) = GetI(SecondEvent, key)

AgreeOnStaking == AgreeOnStr(StakingStrKeys) /\ AgreeOnInt(StakingIntKeys)

IsStaking(event) == GetS(event, "edge_category") = "staking"

\* the six common identity fields as the events carry them
AgreeOnCommon ==
    /\ AgreeOnStr({"coldkey_source", "coldkey_destination", "edge_category", "edge_type"})
    /\ AgreeOnInt({"block_number", "rao_amount"})

\* the same, edge_category and edge_type being read from category and type
\* when they are absent or empty
AgreeOnEffective ==
    /\ AgreeOnStr({"coldkey_source", "coldkey_destination"})
    /\ AgreeOnInt({"block_number", "rao_amount"})
    /\ OrElse(GetS(FirstEvent, "edge_category"), GetS(FirstEvent, "category"))
         = OrElse(GetS(SecondEvent, "edge_category"), GetS(SecondEvent, "category"))
    /\ OrElse(GetS(FirstEvent, "edge_type"), GetS(FirstEvent, "type"))
         = OrElse(GetS(SecondEvent, "edge_type"), GetS(SecondEvent, "type"))
    /\ IsStaking(FirstEvent) <=> IsStaking(SecondEvent)

StageSuccessors(p) ==
    CASE p = "idle" -> {"execute_task"}
      [] p = "execute_task" -> {"start_owner", "zero_score"}
      [] p = "start_owner" -> {"end_owner", "raised"}
      [] p = "end_owner" -> {"edges", "calc_score", "zero_score", "raised"}
      [] p = "edges" -> {"calc_score", "zero_score", "raised"}
      [] p = "calc_score" -> {"persist"}
      [] p = "zero_score" -> {"persist"}
      [] p = "persist" -> {"send_score", "done"}
      [] p = "send_score" -> {"done"}
      [] OTHER -> {}

\* a ground-truth query of the audit is in flight
ChainQueryIssued(a) == pc[a] \in {"start_owner", "end_owner"} \/ pending[a] # {}

\* what holds of an audit at each stage
StageInv ==
    \A a \in Audits :
        /\ ChainQueryIssued(a) => ValidateGraph(response[a]) = Ok
        /\ pending[a] # {} =>
              /\ pc[a] \notin {"idle", "execute_task", "start_owner", "end_owner"}
              /\ BoundaryCheck(Range(response[a].nodes), start_owner[a],
                               owner[max_block_number]) = Ok
        /\ pc[a] = "calc_score" =>
              /\ ValidateGraph(response[a]) = Ok
              /\ BoundaryOwnersPresent(a)
              /\ AllEdgesMatch(a)
              /\ pending[a] = {}
        /\ pc[a] \in {"idle", "execute_task", "start_owner", "end_owner", "edges",
                      "calc_score", "zero_score"} => score[a] = NoScore
        /\ pc[a] \in {"idle", "execute_task", "start_owner", "end_owner", "edges",
                      "calc_score", "zero_score", "persist"} =>
              RowsOf(a) = {} /\ score[a] \notin sent

\* how a step moves an audit
StageStep ==
    \A a \in Audits :
        /\ pc'[a] # pc[a] => pc'[a] \in StageSuccessors(pc[a])
        /\ (pending'[a] # {} /\ pending[a] = {}) => pc[a] = "end_owner"
        /\ \A q \in pending'[a] : q \in pending[a] \/ pc[a] = "end_owner"
        /\ (score'[a].validation_passed /\ ~score[a].validation_passed) =>
              pc[a] = "calc_score"
        /\ (score[a] \notin sent /\ score'[a] \in sent') =>
              pc[a] = "send_score" /\ \E i \in RowsOf(a) : history[i] = score[a]

\* C15: an audit goes through dispatch, structural validation, the boundary
\* queries, the per-edge queries, scoring, persistence and telemetry in that
\* order only: no chain query is in flight unless _validate_graph passed, the
\* per-edge queries are created after both boundary queries returned and the
\* boundary check passed, a passing score is built only at line 126, after
\* validate returned, and the score reaches the dashboard only after its row
\* is in the repository.
ThmC15 == []StageInv /\ [][StageStep]_vars

\* an audit went through every stage: an edge was verified, the passing score
\* persisted and sent
WitC15 ==
    \E a \in Audits :
        /\ pc[a] = "done"
        /\ Len(response[a].edges) >= 1
        /\ score[a].validation_passed
        /\ score[a] \in sent
        /\ \E i \in RowsOf(a) : history[i] = score[a]


(***************************************************************************)
(* Claims about the order of the structural checks                         *)
(***************************************************************************)
\* the rule a ValidationException of _validate_graph belongs to
RuleOf(msg) ==
    CASE msg.kind \in {"Missing graph", "Zero nodes"} -> 1
      [] msg.kind = "Duplicate node" -> 2
      [] msg.kind = "Edge has same source and destination" -> 3
      [] msg.kind \in {"Edge source is not a node", "Edge destination is not a node"} -> 4
      [] msg.kind = "Duplicate edge" -> 5
      [] msg.kind = "Graph is not fully connected" -> 6
      [] OTHER -> 0

\* the rules a subgraph violates
ViolatedRules(g) ==
    {k \in 1..6 :
        \/ k = 1 /\ ~Rule1(g)
        \/ k = 2 /\ ~Rule2(g)
        \/ k = 3 /\ ~Rule3(g)
        \/ k = 4 /\ ~Rule4(g)
        \/ k = 5 /\ ~Rule5(g)
        \/ k = 6 /\ ~Rule6(g)}

\* the rules edge i violates, rule 5 being violated by the later of two
\* equal edges
EdgeViolates(g, i) ==
    LET e == g.edges[i] IN
    {k \in 3..5 :
        \/ k = 3 /\ e.coldkey_source = e.coldkey_destination
        \/ k = 4 /\ (e.coldkey_source \notin Range(g.nodes)
                     \/ e.coldkey_destination \notin Range(g.nodes))
        \/ k = 5 /\ \E j \in 1..(i - 1) : g.edges[j] = e}

\* C16 as stated: the exception raised is that of the lowest-numbered rule
\* the subgraph violates.
CexC16 ==
    (gResult # NoMsg /\ gResult # Ok) =>
        RuleOf(gResult) = MinOf(ViolatedRules(gInput))

\* C16 amended: rules 1 and 2 are checked first and in that order and rule 6
\* last; rules 3, 4 and 5 are checked edge by edge in list order, so the
\* exception is that of the first edge violating one of them and, for that
\* edge, of the lowest-numbered rule it violates.
ThmC16 ==
    (gResult # NoMsg /\ gResult # Ok) =>
        LET V == ViolatedRules(gInput)
            bad == {i \in DOMAIN gInput.edges : EdgeViolates(gInput, i) # {}}
        IN /\ RuleOf(gResult) \in V
           /\ 1 \in V => RuleOf(gResult) = 1
           /\ (1 \notin V /\ 2 \in V) => RuleOf(gResult) = 2
           /\ (1 \notin V /\ 2 \notin V /\ bad # {}) =>
                 RuleOf(gResult) = MinOf(EdgeViolates(gInput, MinOf(bad)))
           /\ RuleOf(gResult) = 6 => V = {6}

\* the first edge has an undeclared endpoint and the second is a self-loop:
\* the exception is rule 4's although rule 3 is violated
WitC16 ==
    /\ RuleOf(gResult) = 4
    /\ 3 \in ViolatedRules(gInput)
    /\ Len(gInput.edges) = 2
    /\ EdgeViolates(gInput, 1) = {4}
    /\ 3 \in EdgeViolates(gInput, 2)


(***************************************************************************)
(* Claims about the per-edge fan-out                                       *)
(***************************************************************************)
\* the per-edge queries whose answer differs from the edge
Mismatching(a) ==
    {q \in Queries(response[a].edges) : ~OwnerMatches(response[a].edges, q, owner)}

\* gather is awaited only while no query has failed
FailFastInv ==
    \A a \in Audits :
        /\ pc[a] = "edges" =>
              /\ error[a] = NoMsg
              /\ pending[a] # {}
              /\ \A q \in Queries(response[a].edges) \ pending[a] :
                    OwnerMatches(response[a].edges, q, owner)
        /\ (pc[a] \in {"persist", "done"} /\ error[a].kind = "Expected hotkey_owner") =>
              /\ score[a].error_message = error[a]
              /\ score[a].overall_score = 0
              /\ ~score[a].validation_passed

FailFastStep ==
    \A a \in Audits :
        \* the first failure ends the wait, whatever is still in flight
        /\ (pc[a] = "edges" /\ pending'[a] # pending[a]) =>
              \E q \in pending[a] :
                 /\ pending'[a] = pending[a] \ {q}
                 /\ ~OwnerMatches(response[a].edges, q, owner) =>
                       /\ pc'[a] \in {"zero_score", "raised"}
                       /\ pc'[a] = "zero_score" =>
                             error'[a] = Msg("Expected hotkey_owner",
                                             QExpected(response[a].edges, q),
                                             owner[QBlock(response[a].edges, q)],
                                             QBlock(response[a].edges, q))
        \* a query completing after the wait is over changes nothing
        /\ (pc[a] \notin {"edges", "end_owner"} /\ pending'[a] # pending[a]) =>
              /\ pc'[a] = pc[a]
              /\ error'[a] = error[a]
              /\ score'[a] = score[a]
              /\ history' = history
        \* the failure recorded and the score built stay as they are
        /\ error[a] # NoMsg => error'[a] = error[a]
        /\ score[a] # NoScore => score'[a] = score[a]
        /\ pc[a] \in {"zero_score", "raised"} => pc'[a] \notin {"edges", "calc_score"}

\* C17: the wait of _validate_edges ends with the first query that mismatches
\* or raises, whatever is still in flight, and with that query's failure; the
\* queries left in flight complete unobserved: they change neither the
\* position of the audit, nor the recorded message, nor the score, nor the rows.
ThmC17 == []FailFastInv /\ [][FailFastStep]_vars

\* two queries mismatch; the audit failed on the first to complete, returned
\* with its zero score, and the other completed afterwards
WitC17 ==
    \E a \in Audits :
        /\ pc[a] = "done"
        /\ pending[a] = {}
        /\ Cardinality(Mismatching(a)) >= 2
        /\ error[a].kind = "Expected hotkey_owner"
        /\ \E i \in RowsOf(a) : history[i].error_message = error[a]


(***************************************************************************)
(* Claims about the two paths of add_events                                *)
(***************************************************************************)
\* the table after inserting the rows from index i on one by one, each in a
\* transaction of its own, a row of a stored edge_hash being rejected
RECURSIVE OneByOne(_, _, _)
OneByOne(st, rows, i) ==
    IF i > Len(rows) THEN st
    ELSE IF rows[i].edge_hash \in Hashes(st) THEN OneByOne(st, rows, i + 1)
    ELSE OneByOne(st (+) SetToBag({rows[i]}), rows, i + 1)

\* the batch attempt of the running call has just failed
BatchJustFailed == spc = "fallback" /\ idx = 1

\* C18: a failed batch attempt leaves the table as it was before the call,
\* and a call without generic storage errors ends, on either path, with the
\* table one-by-one insertion gives: the rows stored before, untouched, plus
\* one row for each edge_hash of the batch that was not stored.
ThmC18 ==
    /\ BatchJustFailed => store = store0
    /\ (spc = "returned" /\ ~generic) =>
          /\ store = OneByOne(store0, events, 1)
          /\ Hashes(store) = Hashes(store0) \cup {events[i].edge_hash : i \in DOMAIN events}
          /\ BagCardinality(store) = Cardinality(Hashes(store))
          /\ \A r \in BagToSet(store0) : r \in BagToSet(store)

\* the batch attempt failed on a repeat inside the batch, and the call ended
\* with the first and the third event added to a table that was not empty
WitC18 ==
    /\ spc = "returned" /\ ~generic
    /\ store0 # EmptyBag
    /\ Len(events) = 3
    /\ events[1].edge_hash \notin Hashes(store0)
    /\ events[2].edge_hash = events[1].edge_hash
    /\ events[3].edge_hash \notin Hashes(store0) \cup {events[1].edge_hash}
    /\ duplicate_count = 1
    /\ BagCardinality(store) = BagCardinality(store0) + 2


\* every row of table s is in table t as often
RowsKept(s, t) == \A r \in BagToSet(s) : CopiesIn(r, s) <= CopiesIn(r, t)

\* one iteration of the per-item loop
FallbackStep ==
    (spc = "fallback" /\ idx <= Len(events)) =>
        /\ spc' = "fallback" /\ events' = events /\ idx' = idx + 1
        /\ RowsKept(store, store')
        /\ \/ /\ store' = store (+) SetToBag({events[idx]})
              /\ events[idx].edge_hash \notin Hashes(store)
              /\ duplicate_count' = duplicate_count
           \/ /\ store' = store
              /\ events[idx].edge_hash \in Hashes(store)
              /\ duplicate_count' = duplicate_count + 1
           \/ /\ store' = store
              /\ duplicate_count' = duplicate_count
              /\ generic'

\* the loop ends after the last event only
FallbackEnd ==
    /\ (spc = "fallback" /\ spc' # "fallback") => idx = Len(events) + 1
    /\ (spc = "fallback" /\ idx > Len(events)) =>
          spc' = "returned" /\ store' = store /\ duplicate_count' = duplicate_count

\* the events of a call that went through the loop are all accounted for
FallbackInv ==
    /\ spc = "fallback" => idx \in 1..(Len(events) + 1) /\ RowsKept(store0, store)
    /\ (spc = "returned" /\ idx > 0) =>
          /\ idx = Len(events) + 1
          /\ RowsKept(store0, store)
          /\ BagCardinality(store) - BagCardinality(store0) + duplicate_count
                <= Len(events)
          /\ ~generic => BagCardinality(store) - BagCardinality(store0)
                            + duplicate_count = Len(events)

\* C19: the per-item loop takes the events one at a time, in order: each step
\* either commits the event, or rolls it back on a uniqueness violation and
\* counts a duplicate, or rolls it back on another error and counts nothing;
\* in every case the loop goes on to the next event, never ends before the
\* last one and never removes a row.
ThmC19 == []FallbackInv /\ [][FallbackStep /\ FallbackEnd]_vars

\* a call whose first event was a duplicate and whose second event failed
\* with another error has stored its third event
WitC19 ==
    /\ spc = "returned" /\ idx = 4 /\ generic
    /\ Len(events) = 3
    /\ events[1].edge_hash \in Hashes(store0)
    /\ duplicate_count = 1
    /\ events[2].edge_hash \notin Hashes(store)
    /\ events[3] \in BagToSet(store) /\ events[3].edge_hash \notin Hashes(store0)


(***************************************************************************)
(* Claims about the score history under interleaved audits                 *)
(***************************************************************************)
\* execute_challenge is over for the audit: it returned or an exception left it
Finished(a) == pc[a] \in {"done", "raised"}

\* the audits that have got past score_repository.add or ended without it
PastAdd == {a \in Audits : Persisted(a) \/ pc[a] = "raised"}

\* no row is changed or removed, and at most one is appended
AppendOnly ==
    /\ Len(history') \in {Len(history), Len(history) + 1}
    /\ \A i \in DOMAIN history : history'[i] = history[i]

\* the moving average of a score is taken over the rows of the step it is
\* built in
AverageAtRead ==
    \A a \in Audits :
        (score[a] = NoScore /\ score'[a] # NoScore) =>
            score'[a].overall_score_moving_average
                = MovingAverage(history, score'[a].overall_score, miner[a])

\* C20: with audits interleaved, every audit appends exactly one MinerScore,
\* rows are never changed or removed, the history holds one row per finished
\* audit, and each moving average is taken over the rows present when the
\* audit reads the history.
CexC20 ==
    /\ [](\A a \in Audits : Cardinality(RowsOf(a)) <= 1)
    /\ [](\A a \in Audits : Finished(a) => Cardinality(RowsOf(a)) = 1)
    /\ [](Len(history) = Cardinality(PastAdd))
    /\ [][AppendOnly /\ AverageAtRead]_vars


(***************************************************************************)
(* Claims about get_highest_block_from_db                                  *)
(***************************************************************************)
\* C21: get_highest_block_from_db always returns and never raises: it returns
\* the greatest block_number of the stored rows when the table is not empty
\* and the query succeeds, None when the table is empty and None when the
\* query fails; the table is the same after the call as before.
ThmC21 ==
    /\ spc # "highest_raised"
    /\ spc = "highest_returned" =>
          /\ store = store0
          /\ generic => ret = RetNone
          /\ store = EmptyBag => ret = RetNone
          /\ (~generic /\ store # EmptyBag) =>
                /\ Len(ret) = 1
                /\ \E r \in BagToSet(store) : r.block_number = ret[1]
                /\ \A r \in BagToSet(store) : r.block_number <= ret[1]

\* the query succeeded on a table holding events of blocks 10 and 11
WitC21 ==
    /\ spc = "highest_returned" /\ ~generic
    /\ ret = <<11>>
    /\ \E r \in BagToSet(store) : r.block_number = 10
    /\ BagCardinality(store) >= 2


(***************************************************************************)
(* Claims about the averaged list of the moving averages                   *)
(***************************************************************************)
\* the list MinerScoring._moving_average of the finished call took its mean
\* of: the collected scores, highest first, cut to N-2
VolumeAveraged ==
    PySlice(SortedReverse(find_latest_overall_scores(history, avgArgs.miner,
                                                     COLDKEY_SEARCH,
                                                     avgArgs.denominator - 1)
                          \o <<avgArgs.overall_score>>),
            avgArgs.denominator - NUMBER_OF_LOW_SCORES_TO_DISCARD)

\* C22: for every history length and every moving_average_denominator N >= 1
\* the list the volume policy's moving average is taken of has at least one
\* element, so the division by its length is defined, and the average lies
\* between the smallest and the largest of the averaged scores.
CexC22 ==
    avgArgs.called =>
        /\ Len(VolumeAveraged) >= 1
        /\ avgResult # ZeroDivisionError
        /\ LET vals == {VolumeAveraged[i] : i \in DOMAIN VolumeAveraged}
           IN /\ MinOf(vals) * avgResult.den <= avgResult.num
              /\ avgResult.num <= MaxOf(vals) * avgResult.den

====
